---- MODULE Spec2Model ----
(***************************************************************************)
(* Model of the declaration sorter of gorganize (formatters/aifi.go):      *)
(* aifiFormatter.Format, the extraction of declarations with their         *)
(* comments, the comparator handed to slices.SortFunc and the reassembly   *)
(* of the file with append.                                                *)
(*                                                                         *)
(* A source buffer is a Go slice: a backing array (a sequence whose length *)
(* is the capacity) and a length.  token.Pos of the byte at 0-based offset *)
(* o is o+1, which is the 1-based index of that byte in a TLA+ sequence,   *)
(* so the Go slice src[a:b] is SubSeq(array, a+1, b).                      *)
(*                                                                         *)
(* Identifiers are sequences of byte codes (ASCII), so that the numeric-   *)
(* aware comparison is computed byte by byte as the code computes it.      *)
(***************************************************************************)
EXTENDS Integers, Sequences, FiniteSets

\* ------------------------------------------------------------------ bounds

\* declarations per file in the general family of inputs
MaxDecls == 2
\* declarations per file in the family of files whose declarations sit on
\* consecutive lines
DenseDecls == 6
\* cap(src) - len(src) of a buffer handed to Format
MaxSlack == 1
\* declarations per list in the specification of the sort alone
MaxSortLen == 3

\* ------------------------------------------------------------ identifiers

item2 == <<105, 116, 101, 109, 50>>
item9 == <<105, 116, 101, 109, 57>>
item10 == <<105, 116, 101, 109, 49, 48>>
\* "A01" and "A001": the same number behind different leading zeros
A01 == <<65, 48, 49>>
A001 == <<65, 48, 48, 49>>
Foo == <<70, 111, 111>>
\* "f", "g", "m"
fName == <<102>>
gName == <<103>>
mName == <<109>>
\* the empty string ""
EmptyName == <<>>

\* mainMethod = "main"
mainMethod == <<109, 97, 105, 110>>

\* ------------------------------------------------------------------ tokens

CONST == "CONST"
FUNC == "FUNC"
IMPORT == "IMPORT"
METHOD == "METHOD"
TYPE == "TYPE"
VAR == "VAR"

\* declOrder = map[token.Token]int{...}; a missing key reads as 0
declOrder(tok) ==
    CASE tok = IMPORT -> 0
      [] tok = CONST -> 1
      [] tok = VAR -> 2
      [] tok = TYPE -> 3
      [] tok = FUNC -> 4
      [] OTHER -> 0

\* cmp.Compare on integers (and on bytes)
cmpCompare(x, y) == IF x < y THEN -1 ELSE IF x > y THEN 1 ELSE 0

\* cmp.Compare on strings: lexicographic on bytes, a proper prefix first
RECURSIVE cmpCompareString(_, _)
cmpCompareString(a, b) ==
    IF a = <<>> /\ b = <<>> THEN 0
    ELSE IF a = <<>> THEN -1
    ELSE IF b = <<>> THEN 1
    ELSE IF Head(a) # Head(b) THEN cmpCompare(Head(a), Head(b))
    ELSE cmpCompareString(Tail(a), Tail(b))

isDigit(b) == b >= 48 /\ b <= 57

\* strings.TrimLeft(s, "0")
RECURSIVE TrimLeftZeros(_)
TrimLeftZeros(s) ==
    IF s # <<>> /\ Head(s) = 48 THEN TrimLeftZeros(Tail(s)) ELSE s

\* the loop of parseNumber: the first index at or after j that holds no digit
RECURSIVE digitRunEnd(_, _)
digitRunEnd(s, j) ==
    IF j <= Len(s) /\ isDigit(s[j]) THEN digitRunEnd(s, j + 1) ELSE j

\* parseNumber(s, i), i a 1-based index: the digits s[i:j] without leading
\* zeros and the index after the run
parseNumber(s, i) ==
    LET j == digitRunEnd(s, i + 1)
    IN  [num |-> TrimLeftZeros(SubSeq(s, i, j - 1)), next |-> j]

\* the loop of compareStringsWithWholeNumbers, from indices i and j
RECURSIVE cswnLoop(_, _, _, _)
cswnLoop(a, b, i, j) ==
    IF i <= Len(a) /\ j <= Len(b)
    THEN IF a[i] # b[j] THEN cmpCompare(a[i], b[j])
         ELSE IF ~isDigit(a[i]) THEN cswnLoop(a, b, i + 1, j + 1)
         ELSE LET pa == parseNumber(a, i)
                  pb == parseNumber(b, j)
              IN  IF pa.num # pb.num
                  THEN IF Len(pa.num) # Len(pb.num)
                       THEN cmpCompare(Len(pa.num), Len(pb.num))
                       ELSE cmpCompareString(pa.num, pb.num)
                  ELSE cswnLoop(a, b, pa.next, pb.next)
    ELSE IF i <= Len(a) THEN 1
    ELSE IF j <= Len(b) THEN -1
    ELSE 0

compareStringsWithWholeNumbers(a, b) == cswnLoop(a, b, 1, 1)

compareFuncNames(a, b) ==
    IF a = mainMethod THEN -1
    ELSE IF b = mainMethod THEN 1
    ELSE compareStringsWithWholeNumbers(a, b)

\* ------------------------------------------------------------ declarations

\* A receiver type expression is an identifier under a list of wrappers
\* (outermost first): *ast.StarExpr, *ast.IndexExpr, *ast.IndexListExpr.
NoRecv == [wraps |-> <<>>, name |-> EmptyName]

Ident(name) == [wraps |-> <<>>, name |-> name]

Star(x) == [wraps |-> <<"Star">> \o x.wraps, name |-> x.name]

Index(x) == [wraps |-> <<"Index">> \o x.wraps, name |-> x.name]

\* what the ast gives for a declaration: its token, its name (functions and
\* methods), the name of its first spec (types) and its receiver (methods)
AstDecl(tok, name, typeName, recv) ==
    [Tok |-> tok, Name |-> name, TypeName |-> typeName, Recv |-> recv]

\* the *declaration built by getDecl, without its position and text
declaration(ast, order) ==
    [Tok |-> ast.Tok, Name |-> ast.Name, TypeName |-> ast.TypeName,
     Recv |-> ast.Recv, OriginalOrder |-> order,
     Pos |-> 0, End |-> 0, TextLo |-> 0, TextHi |-> 0]

getFunctionName(decl) ==
    IF decl.Tok # FUNC /\ decl.Tok # METHOD THEN EmptyName ELSE decl.Name

\* rec peels the wrappers down to the identifier
RECURSIVE recvRec(_, _)
recvRec(wraps, name) ==
    IF wraps = <<>> THEN name ELSE recvRec(Tail(wraps), name)

getReceiverTypeName(decl) ==
    IF decl.Tok # METHOD THEN EmptyName
    ELSE recvRec(decl.Recv.wraps, decl.Recv.name)

getTypeName(decl) ==
    IF decl.Tok # TYPE THEN EmptyName ELSE decl.TypeName

compareMethodToDecl(decl, other) ==
    LET receiverName == getReceiverTypeName(decl)
    IN  CASE other.Tok \in {IMPORT, CONST, VAR} -> 1
          [] other.Tok = TYPE ->
               LET typeName == getTypeName(other)
               IN  IF typeName = receiverName THEN 1
                   ELSE compareStringsWithWholeNumbers(receiverName, typeName)
          [] other.Tok = METHOD ->
               LET c == compareStringsWithWholeNumbers(
                            receiverName, getReceiverTypeName(other))
               IN  IF c = 0
                   THEN compareStringsWithWholeNumbers(
                            getFunctionName(decl), getFunctionName(other))
                   ELSE c
          [] other.Tok = FUNC -> -1

\* the comparator handed to slices.SortFunc
compareDecls(a, b) ==
    IF a.Tok = METHOD THEN compareMethodToDecl(a, b)
    ELSE IF b.Tok = METHOD THEN -compareMethodToDecl(b, a)
    ELSE IF a.Tok # b.Tok THEN cmpCompare(declOrder(a.Tok), declOrder(b.Tok))
    ELSE CASE a.Tok \in {IMPORT, CONST, VAR} ->
                cmpCompare(a.OriginalOrder, b.OriginalOrder)
           [] a.Tok = TYPE ->
                compareStringsWithWholeNumbers(getTypeName(a), getTypeName(b))
           [] a.Tok = FUNC ->
                compareFuncNames(getFunctionName(a), getFunctionName(b))

\* ---------------------------------------------------------------- the sort

Swap(data, i, j) == [data EXCEPT ![i] = data[j], ![j] = data[i]]

\* the inner loop of the insertion sort: data[j] moves left while it
\* compares below its left neighbour
RECURSIVE insertLeft(_, _)
insertLeft(data, j) ==
    IF j > 1 /\ compareDecls(data[j], data[j - 1]) < 0
    THEN insertLeft(Swap(data, j, j - 1), j - 1)
    ELSE data

RECURSIVE insertionSortFrom(_, _)
insertionSortFrom(data, i) ==
    IF i > Len(data) THEN data
    ELSE insertionSortFrom(insertLeft(data, i), i + 1)

\* slices.SortFunc(decls, compare): for the at most 12 elements of the
\* lists here, pdqsort is its insertion sort
SortFunc(data) == insertionSortFrom(data, 2)

\* ------------------------------------------------------------ source bytes

(***************************************************************************)
(* The bytes of a source buffer.  "P" is the package clause, "\n" a line   *)
(* break, ";" a semicolon, " " a blank, "/" followed by "c" a comment, and *)
(* each declaration is one byte (DeclInfo says which), optionally followed *)
(* by a body "{" ... "}" that may hold comments.  "?" is what the caller's *)
(* array holds beyond len(src).                                            *)
(***************************************************************************)
DeclInfo ==
    [V |-> AstDecl(VAR, EmptyName, EmptyName, NoRecv),
     T |-> AstDecl(TYPE, EmptyName, Foo, NoRecv),
     M |-> AstDecl(METHOD, mName, EmptyName, Star(Ident(Foo))),
     F |-> AstDecl(FUNC, fName, EmptyName, NoRecv),
     G |-> AstDecl(FUNC, gName, EmptyName, NoRecv)]

DeclBytes == DOMAIN DeclInfo

newline == "\n"

\* the half-open range of positions [Pos, End) of a node
Node(pos, end) == [Pos |-> pos, End |-> end]

ParseError == [ok |-> FALSE, Package |-> 0, Decls |-> <<>>, Comments |-> <<>>]

\* the comments of a body opened at index i-1: the index after the closing
\* "}" and the comments met, or next = 0 when the body is not closed
RECURSIVE scanBody(_, _, _, _)
scanBody(s, n, i, cs) ==
    IF i > n THEN [next |-> 0, cs |-> cs]
    ELSE IF s[i] = "}" THEN [next |-> i + 1, cs |-> cs]
    ELSE IF s[i] = "/" /\ i < n /\ s[i + 1] = "c"
         THEN scanBody(s, n, i + 2, Append(cs, Node(i, i + 2)))
    ELSE IF s[i] = " " \/ s[i] = newline THEN scanBody(s, n, i + 1, cs)
    ELSE [next |-> 0, cs |-> cs]

(***************************************************************************)
(* parser.ParseFile as far as Format reads its result: file.Package,       *)
(* file.Decls and file.Comments with their positions, or an error.  mode   *)
(* is "pre" before the package clause, "open" after the package clause or  *)
(* a declaration that still lacks its terminating semicolon (written, or   *)
(* inserted at a line break or at the end of the file), "ready" after it.  *)
(***************************************************************************)
RECURSIVE scanFile(_, _, _, _, _)
scanFile(s, n, i, mode, f) ==
    IF i > n THEN IF mode = "pre" THEN ParseError ELSE f
    ELSE LET b == s[i] IN
         CASE b = "/" ->
                IF i < n /\ s[i + 1] = "c"
                THEN scanFile(s, n, i + 2, mode,
                        [f EXCEPT !.Comments = Append(@, Node(i, i + 2))])
                ELSE ParseError
           [] b = " " -> scanFile(s, n, i + 1, mode, f)
           [] b = newline ->
                scanFile(s, n, i + 1, IF mode = "open" THEN "ready" ELSE mode, f)
           [] b = ";" ->
                IF mode = "open" THEN scanFile(s, n, i + 1, "ready", f)
                ELSE ParseError
           [] b = "P" ->
                IF mode = "pre"
                THEN scanFile(s, n, i + 1, "open", [f EXCEPT !.Package = i])
                ELSE ParseError
           [] b \in DeclBytes ->
                IF mode # "ready" THEN ParseError
                ELSE IF i < n /\ s[i + 1] = "{"
                THEN LET body == scanBody(s, n, i + 2, <<>>)
                     IN  IF body.next = 0 THEN ParseError
                         ELSE scanFile(s, n, body.next, "open",
                                [f EXCEPT
                                   !.Decls = Append(@, [Pos |-> i,
                                                End |-> body.next, b |-> b]),
                                   !.Comments = @ \o body.cs])
                ELSE scanFile(s, n, i + 1, "open",
                        [f EXCEPT !.Decls = Append(@, [Pos |-> i,
                                                End |-> i + 1, b |-> b])])
           [] OTHER -> ParseError

ParseFile(src) ==
    scanFile(src, Len(src), 1, "pre",
             [ok |-> TRUE, Package |-> 0, Decls |-> <<>>, Comments |-> <<>>])

\* ------------------------------------------------------------- extraction

\* token.NoPos
NoPos == 0

\* bytes.Index(src[from-1:], newline) as the index of that line break in
\* src, 0 when there is none
RECURSIVE indexOfNewline(_, _)
indexOfNewline(src, from) ==
    IF from > Len(src) THEN 0
    ELSE IF src[from] = newline THEN from
    ELSE indexOfNewline(src, from + 1)

newlinePosAfterPackageDecl(file, src) ==
    LET at == indexOfNewline(src, file.Package)
    IN  IF at = 0 THEN NoPos ELSE at

\* the loop that skips the comments that start before leftBound
RECURSIVE skipComments(_, _, _)
skipComments(comments, j, leftBound) ==
    IF j <= Len(comments) /\ comments[j].Pos < leftBound
    THEN skipComments(comments, j + 1, leftBound)
    ELSE j

\* the rangeNode of declaration i: from the first comment at or after
\* leftBound, when it starts before the declaration, to the declaration's end
rangeNode(file, i, j) ==
    IF j <= Len(file.Comments) /\ file.Comments[j].Pos < file.Decls[i].Pos
    THEN Node(file.Comments[j].Pos, file.Decls[i].End)
    ELSE Node(file.Decls[i].Pos, file.Decls[i].End)

\* a Text that stops at the declaration's last byte: src[Pos-1 : End-1]
TextOfExclusive(node) == [lo |-> node.Pos, hi |-> node.End - 1]

\* Text: src[node.Pos()-1 : node.End()], a view of the bytes at the 1-based
\* indices Pos .. End of the array
TextOf(node) == [lo |-> node.Pos, hi |-> node.End]

getDecl(ast, node, order) ==
    [declaration(ast, order) EXCEPT
        !.Pos = node.Pos, !.End = node.End,
        !.TextLo = TextOf(node).lo, !.TextHi = TextOf(node).hi]

RECURSIVE getDeclsLoop(_, _, _, _, _)
getDeclsLoop(file, i, j, leftBound, res) ==
    IF i > Len(file.Decls) THEN res
    ELSE LET j2 == skipComments(file.Comments, j, leftBound)
             node == rangeNode(file, i, j2)
         IN  getDeclsLoop(file, i + 1, j2, file.Decls[i].End,
                 Append(res, getDecl(DeclInfo[file.Decls[i].b], node, i - 1)))

getDecls(file, src) ==
    LET nl == newlinePosAfterPackageDecl(file, src)
        leftBound == IF nl = NoPos THEN 1 ELSE nl
    IN  getDeclsLoop(file, 1, 1, leftBound, <<>>)

\* a slice expression array[lo-1 : hi] panics when hi exceeds the capacity
\* (or the length, for src[lastDeclEnd:]) or lo-1 exceeds hi
SliceInRange(lo, hi, limit) == lo - 1 <= hi /\ hi <= limit

\* --------------------------------------------------------------- the state

VARIABLES
    buf,            \* the backing array of the caller's src; Len(buf) = cap(src)
    srcLen,         \* len(src)
    pc,             \* where the running call of Format is
    file,           \* the *ast.File of the running call
    decls,          \* the []*declaration of the running call
    firstDeclStart, \* decls[0].Pos() before the sort
    lastDeclEnd,    \* decls[len(decls)-1].End() before the sort
    out,            \* the bytes Format returned
    outShared,      \* whether the returned slice lives in the caller's array
    call,           \* 1 for the first call; 2 for the call that follows it
    entry,          \* the caller's array and len(src) when the running call began
    first,          \* the first call once it returned: its arguments and result
    list,           \* the declarations handed to the sort alone
    sorted,         \* what the sort made of list
    spc             \* "input" before the sort alone ran, "sorted" after

vars == <<buf, srcLen, pc, file, decls, firstDeclStart, lastDeclEnd, out,
          outShared, call, entry, first, list, sorted, spc>>

formatVars == <<buf, srcLen, pc, file, decls, firstDeclStart, lastDeclEnd, out,
                outShared, call, entry, first>>

sortVars == <<list, sorted, spc>>

\* src as the callee sees it: the first len(src) bytes of the array
SrcBytes(array, n) == SubSeq(array, 1, n)

NoFile == [ok |-> FALSE, Package |-> 0, Decls |-> <<>>, Comments |-> <<>>]

NoCall == [buf |-> <<>>, len |-> 0, out |-> <<>>, how |-> "none"]

\* ----------------------------------------------------------------- inputs

\* what precedes the first declaration: the package clause and a line break;
\* a comment above the package clause and one under it; the package clause
\* and a semicolon, the first declaration on the same line
Prologues ==
    { <<"P", newline>>,
      <<"/", "c", newline, "P", newline, "/", "c", newline>>,
      <<"P", ";">> }

DeclForms ==
    { <<"V">>, <<"T">>, <<"F">>, <<"G", "{", "/", "c", "}">> }

\* what separates two declarations: a line break, a blank line, a semicolon,
\* a comment on its own line, a comment after a blank, a comment right behind
\* the declaration
Gaps ==
    { <<newline>>,
      <<newline, newline>>,
      <<";">>,
      <<newline, "/", "c", newline>>,
      <<" ", "/", "c", newline>>,
      <<"/", "c", newline>> }

\* what follows the last declaration
Trailers ==
    { <<>>, <<newline>>, <<";">>, <<newline, "/", "c", newline>> }

RECURSIVE Runs(_)
Runs(n) ==
    IF n = 0 THEN {<<>>}
    ELSE IF n = 1 THEN DeclForms
    ELSE { r \o g \o d : r \in Runs(n - 1), g \in Gaps, d \in DeclForms }

GeneralFiles ==
    { p \o r \o t :
        p \in Prologues, r \in UNION { Runs(n) : n \in 0..MaxDecls },
        t \in Trailers }

DenseForms == {"T", "M", "F"}

RECURSIVE DenseRuns(_)
DenseRuns(n) ==
    IF n = 0 THEN {<<>>}
    ELSE { r \o <<d, newline>> : r \in DenseRuns(n - 1), d \in DenseForms }

RECURSIVE Repeat(_, _)
Repeat(b, k) == IF k = 0 THEN <<>> ELSE <<b>> \o Repeat(b, k - 1)

\* files whose declarations sit on consecutive lines, followed by nothing or
\* by as many empty lines as there are joints between the declarations
DenseFiles ==
    UNION { { <<"P", newline>> \o r \o t :
                r \in DenseRuns(n), t \in {<<>>, Repeat(newline, n - 1)} } :
            n \in 1..DenseDecls }

\* the files Format is called with: those that parse
Files == { s \in GeneralFiles \cup DenseFiles : ParseFile(s).ok }

\* ------------------------------------------------------------ reassembly

RECURSIVE Join(_, _)
\* bytes.Join(texts, newline), a fresh buffer
Join(texts, sep) ==
    IF texts = <<>> THEN <<>>
    ELSE IF Len(texts) = 1 THEN texts[1]
    ELSE texts[1] \o sep \o Join(Tail(texts), sep)

\* lo.Map(decls, decl.Text): the bytes each view shows in the array
Texts(ds, array) ==
    [i \in 1..Len(ds) |-> SubSeq(array, ds[i].TextLo, ds[i].TextHi)]

\* the array after xs was copied to its indices at+1 .. at+Len(xs)
Overwrite(array, at, xs) ==
    [i \in 1..Len(array) |->
        IF i > at /\ i <= at + Len(xs) THEN xs[i - at] ELSE array[i]]

(***************************************************************************)
(* append(append(src[0:firstDeclStart-1], rewritten...), src[lastDeclEnd:]...) *)
(* The first operand has the capacity of src, so each append writes into   *)
(* the caller's array when the result fits and allocates otherwise, and    *)
(* src[lastDeclEnd:] is read when the outer append copies it, after the    *)
(* inner append wrote.                                                     *)
(***************************************************************************)
Reassembled(array, n, fds, lde, rewritten) ==
    LET keep == fds - 1
        fits1 == keep + Len(rewritten) <= Len(array)
        array1 == IF fits1 THEN Overwrite(array, keep, rewritten) ELSE array
        x == SubSeq(array, 1, keep) \o rewritten
        tail == SubSeq(array1, lde + 1, n)
        fits2 == fits1 /\ Len(x) + Len(tail) <= Len(array)
        array2 == IF fits2 THEN Overwrite(array1, Len(x), tail) ELSE array1
    IN  [bytes |-> x \o tail, shared |-> fits2, array |-> array2,
         array1 |-> array1]

\* ----------------------------------------------------------------- Format

Init ==
    /\ \E s \in Files, k \in 0..MaxSlack :
          /\ buf = s \o Repeat("?", k)
          /\ srcLen = Len(s)
          /\ entry = [buf |-> s \o Repeat("?", k), len |-> Len(s)]
    /\ pc = "call"
    /\ file = NoFile
    /\ decls = <<>>
    /\ firstDeclStart = 0
    /\ lastDeclEnd = 0
    /\ out = <<>>
    /\ outShared = FALSE
    /\ call = 1
    /\ first = NoCall
    /\ list = <<>>
    /\ sorted = <<>>
    /\ spc = "idle"

\* parser.ParseFile and the two early returns
Parse ==
    /\ pc = "call"
    /\ LET f == ParseFile(SrcBytes(buf, srcLen))
       IN  /\ file' = f
           /\ IF ~f.ok
              THEN pc' = "error" /\ out' = <<>>
              ELSE IF Len(f.Decls) = 0
              THEN pc' = "done" /\ out' = SrcBytes(buf, srcLen)
              ELSE pc' = "parsed" /\ out' = <<>>
    /\ outShared' = FALSE
    /\ UNCHANGED <<buf, srcLen, decls, firstDeclStart, lastDeclEnd, call,
                   entry, first, sortVars>>

\* getDecls, then decls[0].Pos() and decls[len(decls)-1].End()
Extract ==
    /\ pc = "parsed"
    /\ LET ds == getDecls(file, SrcBytes(buf, srcLen))
       IN  IF \E i \in 1..Len(ds) :
                 ~SliceInRange(ds[i].TextLo, ds[i].TextHi, Len(buf))
           THEN /\ pc' = "panic"
                /\ UNCHANGED <<decls, firstDeclStart, lastDeclEnd>>
           ELSE /\ pc' = "extracted"
                /\ decls' = ds
                /\ firstDeclStart' = ds[1].Pos
                /\ lastDeclEnd' = ds[Len(ds)].End
    /\ UNCHANGED <<buf, srcLen, file, out, outShared, call, entry, first,
                   sortVars>>

\* slices.SortFunc(decls, ...)
Sort ==
    /\ pc = "extracted"
    /\ decls' = SortFunc(decls)
    /\ pc' = "sorted"
    /\ UNCHANGED <<buf, srcLen, file, firstDeclStart, lastDeclEnd, out,
                   outShared, call, entry, first, sortVars>>

\* bytes.Join and the two appends; src[lastDeclEnd:] panics past len(src),
\* before or after the inner append wrote
Reassemble ==
    /\ pc = "sorted"
    /\ LET r == Reassembled(buf, srcLen, firstDeclStart, lastDeclEnd,
                            Join(Texts(decls, buf), <<newline>>))
       IN  IF ~SliceInRange(lastDeclEnd + 1, srcLen, srcLen)
           THEN /\ pc' = "panic"
                /\ buf' \in {buf, r.array1}
                /\ UNCHANGED <<out, outShared>>
           ELSE /\ pc' = "done"
                /\ buf' = r.array
                /\ out' = r.bytes
                /\ outShared' = r.shared
    /\ UNCHANGED <<srcLen, file, decls, firstDeclStart, lastDeclEnd, call,
                   entry, first, sortVars>>

\* what the first call was given and gave
FirstCall(how) ==
    [buf |-> entry.buf, len |-> entry.len, out |-> out, how |-> how]

\* Format(f, Format(f, s)): the bytes returned are the next call's src, in
\* the caller's array when the result lives there, else in an array of their
\* own
CallOnOutput ==
    /\ pc = "done"
    /\ call = 1
    /\ \E k \in 0..MaxSlack :
          /\ buf' = IF outShared THEN buf ELSE out \o Repeat("?", k)
          /\ srcLen' = Len(out)
          /\ entry' = [buf |-> buf', len |-> Len(out)]
    /\ first' = FirstCall("output")
    /\ call' = 2
    /\ pc' = "call"
    /\ file' = NoFile
    /\ decls' = <<>>
    /\ firstDeclStart' = 0
    /\ lastDeclEnd' = 0
    /\ out' = <<>>
    /\ outShared' = FALSE
    /\ UNCHANGED sortVars

\* a second call with the same buffer
CallOnSameBuffer ==
    /\ pc = "done"
    /\ call = 1
    /\ first' = FirstCall("same")
    /\ entry' = [buf |-> buf, len |-> srcLen]
    /\ call' = 2
    /\ pc' = "call"
    /\ file' = NoFile
    /\ decls' = <<>>
    /\ firstDeclStart' = 0
    /\ lastDeclEnd' = 0
    /\ out' = <<>>
    /\ outShared' = FALSE
    /\ UNCHANGED <<buf, srcLen, sortVars>>

Next ==
    \/ Parse
    \/ Extract
    \/ Sort
    \/ Reassemble
    \/ CallOnOutput
    \/ CallOnSameBuffer

Spec == Init /\ [][Next]_vars

\* one call of Format, from its arguments to its return
NextOnce ==
    \/ Parse
    \/ Extract
    \/ Sort
    \/ Reassemble

SpecOnce == Init /\ [][NextOnce]_vars

\* ------------------------------------------------- claims about one call

\* the bytes the buffer held when the running call began
InputBytes == SrcBytes(entry.buf, entry.len)

\* the running call returned bytes made from at least one declaration
Returned == pc = "done" /\ Len(file.Decls) > 0

\* the captured span of each declaration as the input held it, in the order
\* the sort left
CapturedSpans ==
    [i \in 1..Len(decls) |->
        SubSeq(entry.buf, decls[i].TextLo, decls[i].TextHi)]

\* C1: the returned bytes are the input before the first span, then the
\* captured spans in sorted order joined by one line break, then the input
\* bytes after the last declaration's original end.
C1_OutputIsPrefixSpansSuffix ==
    Returned =>
        out = SubSeq(InputBytes, 1, firstDeclStart - 1)
              \o Join(CapturedSpans, <<newline>>)
              \o SubSeq(InputBytes, lastDeclEnd + 1, entry.len)

\* (category, name, receiverType) of a declaration byte
Triple(b) ==
    LET d == declaration(DeclInfo[b], 0)
    IN  <<d.Tok, IF d.Tok = TYPE THEN getTypeName(d) ELSE getFunctionName(d),
          getReceiverTypeName(d)>>

\* how many of the parsed declarations have the triple t
CountTriple(ds, t) == Cardinality({ i \in 1..Len(ds) : Triple(ds[i].b) = t })

\* C2: the declarations read back from the returned bytes are the multiset
\* of (category, name, receiverType) read from the input.
C2_DeclarationMultisetPreserved ==
    pc = "done" =>
        LET o == ParseFile(out)
        IN  /\ o.ok
            /\ \A b \in DeclBytes :
                  CountTriple(o.Decls, Triple(b))
                      = CountTriple(file.Decls, Triple(b))

\* C3: in the returned bytes, two declarations of different categories,
\* neither a method, stand in the order Import < Const < Var < Type < Func.
C3_CategoryPrecedenceInOutput ==
    pc = "done" =>
        LET o == ParseFile(out)
        IN  o.ok =>
              \A i, j \in 1..Len(o.Decls) :
                 LET a == DeclInfo[o.Decls[i].b]
                     b == DeclInfo[o.Decls[j].b]
                 IN  (i < j /\ a.Tok # b.Tok /\ a.Tok # METHOD /\ b.Tok # METHOD)
                        => declOrder(a.Tok) < declOrder(b.Tok)

\* the comments of the input between the end of declaration i-1 and the
\* start of declaration i (i counts file.Decls from 1)
GapComments(i) ==
    { k \in 1..Len(file.Comments) :
        /\ file.Decls[i - 1].End <= file.Comments[k].Pos
        /\ file.Comments[k].Pos < file.Decls[i].Pos }

\* needle occurs in hay as a contiguous run of bytes
Occurs(needle, hay) ==
    \E q \in 0..(Len(hay) - Len(needle)) :
        SubSeq(hay, q + 1, q + Len(needle)) = needle

\* the declaration extracted from file.Decls[i]
Extracted(i) == CHOOSE d \in { decls[k] : k \in 1..Len(decls) } :
                    d.OriginalOrder = i - 1

\* C6: the comment blocks between the previous declaration and D stand, all
\* of them and in their order, right before D in the returned bytes, and no
\* byte of them lies in the span of another declaration.
C6_GapCommentsTravelWithTheirDeclaration ==
    Returned =>
        \A i \in 2..Len(file.Decls) :
           GapComments(i) # {} =>
              LET k0 == CHOOSE k \in GapComments(i) :
                            \A k2 \in GapComments(i) : k <= k2
                  from == file.Comments[k0].Pos
              IN  /\ Occurs(SubSeq(InputBytes, from, file.Decls[i].End - 1), out)
                  /\ \A j \in 1..Len(file.Decls), k \in GapComments(i) :
                        j # i =>
                           \/ Extracted(j).TextHi < file.Comments[k].Pos
                           \/ file.Comments[k].End <= Extracted(j).TextLo

\* the sort left every declaration where the input had it
InSortedOrder == \A i \in 1..Len(decls) : decls[i].OriginalOrder = i - 1

\* each captured span is followed by exactly one line break, and then the
\* next span begins
OneNewlineApart ==
    \A i \in 1..(Len(decls) - 1) :
        /\ decls[i + 1].TextLo = decls[i].TextHi + 2
        /\ entry.buf[decls[i].TextHi + 1] = newline

\* C7 as stated: the returned bytes are the input whenever the input has no
\* declaration or its declarations are already in sorted order.
C7_NoChangeWhenSorted ==
    (pc = "done" /\ (Len(file.Decls) = 0 \/ InSortedOrder)) => out = InputBytes

\* C7 as amended: the returned bytes are the input whenever the input has no
\* declaration, or its declarations are already in sorted order and exactly
\* one line break separates every two consecutive captured spans.
C7_NoChangeWhenSortedOneNewlineApart ==
    (pc = "done"
       /\ (Len(file.Decls) = 0 \/ (InSortedOrder /\ OneNewlineApart)))
        => out = InputBytes

\* two declarations, in sorted order, one line break between their spans,
\* returned
C7_Witness ==
    /\ Returned
    /\ Len(decls) >= 2
    /\ InSortedOrder
    /\ OneNewlineApart
    /\ out = InputBytes

\* ------------------------------------------------ claims about two calls

\* the second call ended: it returned, failed to parse or panicked
SecondEnded(how) ==
    call = 2 /\ first.how = how /\ pc \in {"done", "error", "panic"}

\* C8: Format(f, Format(f, s)) succeeds and returns the bytes of Format(f, s).
C8_Idempotent ==
    SecondEnded("output") => (pc = "done" /\ out = first.out)

\* C9: the caller's buffer holds after the call what it held before, and a
\* second call with the same buffer returns the bytes the first returned
\* (the result being a buffer of its own, not the caller's array).
C9_CallerBufferUntouched ==
    /\ pc = "done" => SrcBytes(buf, entry.len) = InputBytes
    /\ SecondEnded("same") => (pc = "done" /\ out = first.out)

\* ---------------------------------------------------------- the sort alone

\* the declarations a file may hold, as the ast gives them
SortTypeNames == {item2, item9, item10, A01, A001, Foo}

SortFuncNames == {mainMethod, item2, item9, item10, fName}

SortReceivers == {Ident(A01), Star(Ident(A001)), Index(Ident(Foo))}

SortMethodNames == {item2, item10}

SortDecls ==
    { AstDecl(tok, EmptyName, EmptyName, NoRecv) : tok \in {IMPORT, CONST, VAR} }
    \cup { AstDecl(TYPE, EmptyName, n, NoRecv) : n \in SortTypeNames }
    \cup { AstDecl(FUNC, n, EmptyName, NoRecv) : n \in SortFuncNames }
    \cup { AstDecl(METHOD, n, EmptyName, r) :
             n \in SortMethodNames, r \in SortReceivers }

RECURSIVE AstLists(_)
AstLists(n) ==
    IF n = 0 THEN {<<>>}
    ELSE { Append(l, d) : l \in AstLists(n - 1), d \in SortDecls }

\* the []*declaration getDecls makes of file.Decls, positions left out
DeclList(asts) == [i \in 1..Len(asts) |-> declaration(asts[i], i - 1)]

InitSort ==
    /\ \E n \in 1..MaxSortLen : \E asts \in AstLists(n) : list = DeclList(asts)
    /\ sorted = <<>>
    /\ spc = "input"
    /\ buf = <<>>
    /\ srcLen = 0
    /\ pc = "idle"
    /\ file = NoFile
    /\ decls = <<>>
    /\ firstDeclStart = 0
    /\ lastDeclEnd = 0
    /\ out = <<>>
    /\ outShared = FALSE
    /\ call = 0
    /\ entry = [buf |-> <<>>, len |-> 0]
    /\ first = NoCall

\* slices.SortFunc(decls, ...) on the declarations of one file
SortAlone ==
    /\ spc = "input"
    /\ sorted' = SortFunc(list)
    /\ spc' = "sorted"
    /\ UNCHANGED <<list, formatVars>>

NextSort == SortAlone

SpecSort == InitSort /\ [][NextSort]_vars

\* ------------------------------------------------- claims about the sort

Sign(x) == IF x < 0 THEN -1 ELSE IF x > 0 THEN 1 ELSE 0

\* the positions of sorted that hold a method with receiver type r
MethodsOf(r) ==
    { i \in 1..Len(sorted) :
        sorted[i].Tok = METHOD /\ getReceiverTypeName(sorted[i]) = r }

\* the positions of sorted that hold the declaration of a type named r
TypesNamed(r) ==
    { i \in 1..Len(sorted) : sorted[i].Tok = TYPE /\ getTypeName(sorted[i]) = r }

\* the file declares no type, function or method twice
NoRedeclaration ==
    \A i, j \in 1..Len(list) :
        (i # j /\ list[i].Tok = list[j].Tok
             /\ list[i].Tok \in {TYPE, FUNC, METHOD})
            => \/ getTypeName(list[i]) # getTypeName(list[j])
               \/ getFunctionName(list[i]) # getFunctionName(list[j])
               \/ getReceiverTypeName(list[i]) # getReceiverTypeName(list[j])

\* C4: the methods of receiver type R are one contiguous block, right after
\* the declaration of type R when the file declares R and else where R's
\* name falls among the types; inside the block they are ordered by method
\* name; every method precedes every function.
C4_MethodsClusterAfterTheirType ==
    (spc = "sorted" /\ NoRedeclaration) =>
        /\ \A m \in 1..Len(sorted) :
              sorted[m].Tok = METHOD =>
                 LET r == getReceiverTypeName(sorted[m])
                     block == MethodsOf(r)
                     lo == CHOOSE i \in block : \A k \in block : i <= k
                     hi == CHOOSE i \in block : \A k \in block : i >= k
                 IN  /\ \A k \in lo..hi : k \in block
                     /\ TypesNamed(r) # {} => (lo - 1) \in TypesNamed(r)
                     /\ TypesNamed(r) = {} =>
                           \A t \in 1..Len(sorted) :
                              sorted[t].Tok = TYPE =>
                                 LET c == compareStringsWithWholeNumbers(
                                              getTypeName(sorted[t]), r)
                                 IN  /\ c < 0 => t < lo
                                     /\ c > 0 => t > hi
                     /\ \A k \in lo..(hi - 1) :
                           compareStringsWithWholeNumbers(
                               getFunctionName(sorted[k]),
                               getFunctionName(sorted[k + 1])) <= 0
        /\ \A i, j \in 1..Len(sorted) :
              (sorted[i].Tok = METHOD /\ sorted[j].Tok = FUNC) => i < j

\* the first index at which a and b differ (past the shorter one when one
\* is a prefix of the other)
RECURSIVE firstDifference(_, _, _)
firstDifference(a, b, i) ==
    IF i <= Len(a) /\ i <= Len(b) /\ a[i] = b[i]
    THEN firstDifference(a, b, i + 1)
    ELSE i

\* a digit run begins at index i of s
RunBeginsAt(s, i) ==
    i <= Len(s) /\ isDigit(s[i]) /\ (i = 1 \/ ~isDigit(s[i - 1]))

\* the number written by the digits s[i .. j-1]
RECURSIVE digitsValue(_, _, _, _)
digitsValue(s, i, j, acc) ==
    IF i >= j THEN acc ELSE digitsValue(s, i + 1, j, 10 * acc + (s[i] - 48))

\* the number the maximal digit run of s from index i writes
RunValue(s, i) == digitsValue(s, i, digitRunEnd(s, i), 0)

\* the names the sort compares numerically: of types and of functions
SortedName(d) == IF d.Tok = TYPE THEN getTypeName(d) ELSE getFunctionName(d)

\* C5: when two names first differ where a digit run begins in both, the
\* smaller number sorts first; types or functions named item2, item10 and
\* item9 come out as item2, item9, item10.
C5_DigitRunsOrderByMagnitude ==
    /\ \A i, j \in 1..Len(sorted) :
          LET a == SortedName(list[i])
              b == SortedName(list[j])
              at == firstDifference(a, b, 1)
          IN  (/\ list[i].Tok = list[j].Tok
               /\ list[i].Tok \in {TYPE, FUNC}
               /\ RunBeginsAt(a, at)
               /\ RunBeginsAt(b, at)
               /\ RunValue(a, at) < RunValue(b, at))
                 => compareDecls(list[i], list[j]) < 0
    /\ (/\ spc = "sorted"
        /\ Len(list) = 3
        /\ \E tok \in {TYPE, FUNC} : \A i \in 1..3 : list[i].Tok = tok
        /\ { SortedName(list[i]) : i \in 1..3 } = {item2, item9, item10})
          => [i \in 1..3 |-> SortedName(sorted[i])] = <<item2, item9, item10>>

\* C10: the comparator is a total order on the declarations of a file: for
\* any distinct three of them (the sort ran on the file), the sign of compare(a, b) is
\* the negation of the sign of compare(b, a), and both "below" and "equal"
\* are transitive.
C10_ComparatorIsTotalOrder ==
    \A i, j, k \in 1..Len(sorted) :
        LET a == list[i]
            b == list[j]
            c == list[k]
        IN  /\ i # j => Sign(compareDecls(a, b)) = -Sign(compareDecls(b, a))
            /\ (i # j /\ j # k /\ i # k) =>
                  /\ (compareDecls(a, b) < 0 /\ compareDecls(b, c) < 0)
                        => compareDecls(a, c) < 0
                  /\ (compareDecls(a, b) = 0 /\ compareDecls(b, c) = 0)
                        => compareDecls(a, c) = 0

====
